---------------------------- MODULE Spec2Model ----------------------------
(***************************************************************************)
(* Geographic analysis core of coronavirus-tracker-api:                    *)
(*   app/utils/geo.py            haversine_distance, dbscan_cluster        *)
(*   app/services/geographic_analysis.py  GeographicAnalyzer               *)
(*   app/routers/v2.py           get_clusters                              *)
(*   app/utils/analysis.py       calculate_spread_vector                   *)
(*   app/utils/visualization.py  create_heatmap                            *)
(*                                                                         *)
(* Numbers.  Python floats are modelled in fixed point: an angle, a sine   *)
(* or a cosine x is the integer round-toward-zero of x * Scale.  Degrees   *)
(* are carried in tenths of a degree (40.7 N is 407).  Every fixed-point   *)
(* operator is odd/even exactly as the float function it stands for, so    *)
(* that sign symmetries of the float computation are those of the model.   *)
(***************************************************************************)
EXTENDS Integers, Sequences, FiniteSets, TLC

Scale == 10 ^ 4                 \* fixed-point unit: 1e-4
Pi == 31416                     \* pi      * Scale
HalfPi == 15708                 \* pi / 2  * Scale
QuarterPi == 7854               \* pi / 4  * Scale
TwoPiFine == 6283185            \* 2 pi    * Scale * 100, for range reduction

Abs(x) == IF x < 0 THEN 0 - x ELSE x
Min(a, b) == IF a < b THEN a ELSE b
Max(a, b) == IF a < b THEN b ELSE a

\* float division rounds symmetrically about zero: so does Div
Div(a, b) == IF a < 0 THEN 0 - ((0 - a) \div b) ELSE a \div b

\* math.sqrt on a value n >= 0 carried at Scale^2: the result is at Scale
RECURSIVE SqrtSearch(_, _, _)
SqrtSearch(n, lo, hi) ==
    IF lo >= hi THEN lo
    ELSE LET mid == (lo + hi + 1) \div 2
         IN  IF mid * mid <= n THEN SqrtSearch(n, mid, hi)
             ELSE SqrtSearch(n, lo, mid - 1)

sqrt(n) == SqrtSearch(Max(0, Min(n, Scale * Scale)), 0, Scale)

\* sine of x in [0, pi/2] by its Taylor series up to x^9
SinQ(x) ==
    LET x2 == (x * x) \div Scale
        t3 == (x * x2) \div (6 * Scale)
        t5 == (t3 * x2) \div (20 * Scale)
        t7 == (t5 * x2) \div (42 * Scale)
        t9 == (t7 * x2) \div (72 * Scale)
    IN  Min(Scale, x - t3 + t5 - t7 + t9)

\* sine of any x >= 0: reduce modulo 2 pi, then by quadrant
SinPos(x) ==
    LET r == ((x * 100) % TwoPiFine) \div 100
    IN  IF r <= HalfPi THEN SinQ(r)
        ELSE IF r <= Pi THEN SinQ(Pi - r)
        ELSE IF r <= Pi + HalfPi THEN 0 - SinQ(r - Pi)
        ELSE 0 - SinQ(Max(0, 2 * Pi - r))

sin(x) == IF x < 0 THEN 0 - SinPos(0 - x) ELSE SinPos(x)
cos(x) == SinPos(Abs(x) + HalfPi)

\* arctangent of z, |z| <= tan(pi/8), by its series up to z^9
AtanSmall(z) ==
    LET z2 == (z * z) \div Scale
        z3 == Div(z * z2, Scale)
        z5 == Div(z3 * z2, Scale)
        z7 == Div(z5 * z2, Scale)
        z9 == Div(z7 * z2, Scale)
    IN  z - Div(z3, 3) + Div(z5, 5) - Div(z7, 7) + Div(z9, 9)

\* arctangent of t in [0, 1]: atan t = pi/4 + atan((t - 1) / (t + 1))
AtanUnit(t) ==
    IF t * 10000 <= 4142 * Scale THEN AtanSmall(t)
    ELSE QuarterPi + AtanSmall(Div((t - Scale) * Scale, t + Scale))

\* math.atan2(y, x) for y >= 0 and x >= 0 (both are square roots here)
atan2(y, x) ==
    IF y = 0 THEN 0
    ELSE IF x = 0 THEN HalfPi
    ELSE IF y <= x THEN AtanUnit((y * Scale) \div x)
    ELSE HalfPi - AtanUnit((x * Scale) \div y)

\* asin(s) for s in [0, 1]: the angle whose sine is s
asin(s) == atan2(s, sqrt(Scale * Scale - s * s))

\* math.radians of an angle given in tenths of a degree
radians(d) == Div(d * 174533, 10000)

(***************************************************************************)
(* Locations.  A location is a record of its coordinates (tenths of a      *)
(* degree) and its confirmed case count; a request sees a list of them.    *)
(***************************************************************************)
MaxLocs == 6                    \* longest location list explored

R == 6371                       \* Earth's radius in km

NearSouth == [latitude |-> 400, longitude |-> -740, cases |-> 100]
NearMid == [latitude |-> 405, longitude |-> -740, cases |-> 150]
NearNorth == [latitude |-> 410, longitude |-> -740, cases |-> 3]
London == [latitude |-> 515, longitude |-> -1, cases |-> 80]

LocationPool == {NearSouth, NearMid, NearNorth, London}

RECURSIVE SeqsUpTo(_, _)
SeqsUpTo(S, n) ==
    IF n = 0 THEN {<<>>}
    ELSE LET shorter == SeqsUpTo(S, n - 1)
         IN  shorter \cup {Append(s, x) : s \in {t \in shorter : Len(t) = n - 1}, x \in S}

LocationLists == SeqsUpTo(LocationPool, MaxLocs)

\* six distinct places around (0 N, 0 E), half a degree to over a degree
\* apart: the data of a source whose regions neighbour one another
MaxSites == 6                   \* longest list of these places explored

SiteWest == [latitude |-> 0, longitude |-> 0 - 5, cases |-> 50]
SiteEast == [latitude |-> 0, longitude |-> 5, cases |-> 50]
SiteNorth == [latitude |-> 5, longitude |-> 0, cases |-> 50]
SiteSouth == [latitude |-> 0 - 5, longitude |-> 0, cases |-> 50]
SiteFarWest == [latitude |-> 0, longitude |-> 0 - 12, cases |-> 50]
SiteFarEast == [latitude |-> 0, longitude |-> 12, cases |-> 50]

SitePool == {SiteWest, SiteEast, SiteNorth, SiteSouth, SiteFarWest, SiteFarEast}

\* the lists of up to n different members of S
RECURSIVE DistinctSeqsUpTo(_, _)
DistinctSeqsUpTo(S, n) ==
    IF n = 0 THEN {<<>>}
    ELSE LET shorter == DistinctSeqsUpTo(S, n - 1)
             longest == {t \in shorter : Len(t) = n - 1}
             fresh == {q \in longest \X S : \A k \in DOMAIN q[1] : q[1][k] # q[2]}
         IN  shorter \cup {Append(q[1], q[2]) : q \in fresh}

SiteLists == DistinctSeqsUpTo(SitePool, MaxSites)

SiteMinSamplesChoices == {3, 4} \* min_samples values explored on these places

EpsChoices == {100, 120}        \* eps_km / radius_km values explored
MinSamplesChoices == {1, 2, 3}  \* min_samples values explored
MinCasesChoices == {5, 6}       \* min_cases values explored (Query ge=5)

\* haversine_distance with the first latitude standing in for the second in
\* the cosine product
haversine_distanceOneSided(lat1, lon1, lat2, lon2) ==
    LET rlat1 == radians(lat1)
        rlon1 == radians(lon1)
        rlat2 == radians(lat2)
        rlon2 == radians(lon2)
        dlat == rlat2 - rlat1
        dlon == rlon2 - rlon1
        s1 == sin(Div(dlat, 2))
        s2 == sin(Div(dlon, 2))
        cc == Div(cos(rlat1) * cos(rlat1), Scale)
        a == s1 * s1 + Div(cc * s2, Scale) * s2
        c == 2 * atan2(sqrt(a), sqrt(Scale * Scale - a))
    IN  R * c

\* geo.haversine_distance: kilometres * Scale between two points in degrees/10
haversine_distance(lat1, lon1, lat2, lon2) ==
    LET rlat1 == radians(lat1)
        rlon1 == radians(lon1)
        rlat2 == radians(lat2)
        rlon2 == radians(lon2)
        dlat == rlat2 - rlat1
        dlon == rlon2 - rlon1
        s1 == sin(Div(dlat, 2))
        s2 == sin(Div(dlon, 2))
        cc == Div(cos(rlat1) * cos(rlat2), Scale)
        a == s1 * s1 + Div(cc * s2, Scale) * s2
        c == 2 * atan2(sqrt(a), sqrt(Scale * Scale - a))
    IN  R * c

\* metric='haversine' of sklearn, as DBSCAN applies it to the rows handed to
\* it: the two columns are read as latitude and longitude in RADIANS, and the
\* result is an angle (radians * Scale), not kilometres
sklearn_haversine(x1lat, x1lon, x2lat, x2lon) ==
    LET sin_0 == sin(Div(x1lat - x2lat, 2))
        sin_1 == sin(Div(x1lon - x2lon, 2))
        cc == Div(cos(x1lat) * cos(x2lat), Scale)
        a == sin_0 * sin_0 + Div(cc * sin_1, Scale) * sin_1
    IN  2 * asin(sqrt(a))

\* a coordinate in degrees (here tenths) taken as a float: value * Scale
AsFloat(d) == d * (Scale \div 10)

Coords == {<<l.latitude, l.longitude>> : l \in LocationPool \cup SitePool}

\* distances[i,j] of dbscan_cluster, tabulated over the coordinates in use
DistancesKm ==
    [p \in Coords, q \in Coords |-> haversine_distance(p[1], p[2], q[1], q[2])]

\* the pairwise distances DBSCAN computes inside identify_clusters
DistancesRad ==
    [p \in Coords, q \in Coords |->
        sklearn_haversine(AsFloat(p[1]), AsFloat(p[2]), AsFloat(q[1]), AsFloat(q[2]))]

(***************************************************************************)
(* sklearn.cluster.DBSCAN.fit_predict, as both callers use it.             *)
(***************************************************************************)
Noise == 0 - 1                  \* the label DBSCAN gives to noise points

\* the members of a set S of sample indices among 1..n, in ascending order
Ascending(S, n) == SelectSeq([k \in 1..n |-> k], LAMBDA k : k \in S)

\* the depth-first expansion of one cluster from sample i
RECURSIVE Expand(_, _, _, _, _, _)
Expand(i, stack, labels, label_num, is_core, neighborhoods) ==
    LET labelled == IF labels[i] = Noise THEN [labels EXCEPT ![i] = label_num]
                    ELSE labels
        pushed == IF labels[i] = Noise /\ is_core[i]
                  THEN stack \o Ascending({v \in neighborhoods[i] : labelled[v] = Noise}, Len(labels))
                  ELSE stack
    IN  IF pushed = <<>> THEN labelled
        ELSE Expand(pushed[Len(pushed)], SubSeq(pushed, 1, Len(pushed) - 1),
                    labelled, label_num, is_core, neighborhoods)

\* the outer loop over the samples, in index order
RECURSIVE DbscanInner(_, _, _, _, _)
DbscanInner(i, labels, label_num, is_core, neighborhoods) ==
    IF i > Len(labels) THEN labels
    ELSE IF labels[i] # Noise \/ ~is_core[i]
         THEN DbscanInner(i + 1, labels, label_num, is_core, neighborhoods)
         ELSE DbscanInner(i + 1,
                  Expand(i, <<>>, labels, label_num, is_core, neighborhoods),
                  label_num + 1, is_core, neighborhoods)

\* CoreSamples with the comparison off by one: a neighbourhood of exactly
\* min_samples samples no longer makes a core sample
CoreSamplesStrict(neighborhoods, min_samples) ==
    [i \in DOMAIN neighborhoods |-> Cardinality(neighborhoods[i]) > min_samples]

\* a sample is a core sample when its neighbourhood (itself included) holds
\* at least min_samples samples
CoreSamples(neighborhoods, min_samples) ==
    [i \in DOMAIN neighborhoods |-> Cardinality(neighborhoods[i]) >= min_samples]

\* fit_predict on n samples whose eps-neighbourhoods are given: input
\* validation refuses an array of 0 samples with a ValueError
DBSCAN(n, neighborhoods, min_samples) ==
    IF n = 0 THEN [raised |-> "ValueError", labels |-> <<>>]
    ELSE \* radius_neighbors and the core mask are computed once, before the
         \* labelling loop starts
         LET fitted == CHOOSE f \in {neighborhoods} : TRUE
             core_samples == CHOOSE c \in {CoreSamples(fitted, min_samples)} : TRUE
         IN [raised |-> "none",
             labels |-> DbscanInner(1, [i \in 1..n |-> Noise], 0,
                                    core_samples, fitted)]

\* radius neighbours on the precomputed kilometre matrix: distances[i,j] <= eps_km
NeighborsKm(locs, eps_km) ==
    [i \in 1..Len(locs) |->
        {j \in 1..Len(locs) :
            DistancesKm[<<locs[i].latitude, locs[i].longitude>>,
                        <<locs[j].latitude, locs[j].longitude>>] <= eps_km * Scale}]

\* NeighborsDeg with a sample left out of its own neighbourhood
NeighborsDegNoSelf(locs, eps_km) ==
    [i \in 1..Len(locs) |->
        {j \in 1..Len(locs) \ {i} :
            111 * DistancesRad[<<locs[i].latitude, locs[i].longitude>>,
                               <<locs[j].latitude, locs[j].longitude>>]
                <= eps_km * Scale}]

\* radius neighbours inside identify_clusters: the haversine angle of the raw
\* degree rows against eps = eps_km / 111.0
NeighborsDeg(locs, eps_km) ==
    [i \in 1..Len(locs) |->
        {j \in 1..Len(locs) :
            111 * DistancesRad[<<locs[i].latitude, locs[i].longitude>>,
                               <<locs[j].latitude, locs[j].longitude>>]
                <= eps_km * Scale}]

\* geo.dbscan_cluster
dbscan_cluster(locs, eps_km, min_samples) ==
    DBSCAN(Len(locs), NeighborsKm(locs, eps_km), min_samples)

\* a dict with key k set to value v (clusters[k] = v)
SetItem(dict, k, v) == [x \in DOMAIN dict \cup {k} |-> IF x = k THEN v ELSE dict[x]]

\* the grouping loop of identify_clusters from its k-th iteration on:
\*   if label not in clusters: clusters[label] = []
\*   clusters[label].append(location)
RECURSIVE GroupAllFrom(_, _, _)
GroupAllFrom(k, labels, clusters) ==
    IF k > Len(labels) THEN clusters
    ELSE LET label == labels[k]
             made == IF label \notin DOMAIN clusters THEN SetItem(clusters, label, <<>>)
                     ELSE clusters
         IN  GroupAllFrom(k + 1, labels, SetItem(made, label, Append(made[label], k)))

\* GroupAll with one list shared by every key (dict.fromkeys(keys, []))
GroupAllShared(labels) ==
    [l \in {labels[i] : i \in DOMAIN labels} |-> [k \in 1..Len(labels) |-> k]]

\* GroupAll with the noise label skipped, as get_clusters skips it
GroupAllDropNoise(labels) ==
    LET all == GroupAllFrom(1, labels, <<>>)
    IN  [l \in DOMAIN all \ {Noise} |-> all[l]]

GroupAll(labels) == GroupAllFrom(1, labels, <<>>)

\* the grouping loop of get_clusters from its k-th iteration on: the same,
\* under `if label >= 0`; ids[k] is the location the k-th label belongs to
RECURSIVE GroupClustersFrom(_, _, _, _)
GroupClustersFrom(k, labels, ids, clusters) ==
    IF k > Len(labels) THEN clusters
    ELSE LET label == labels[k]
             made == IF label \notin DOMAIN clusters THEN SetItem(clusters, label, <<>>)
                     ELSE clusters
         IN  IF label >= 0
             THEN GroupClustersFrom(k + 1, labels, ids,
                      SetItem(made, label, Append(made[label], ids[k])))
             ELSE GroupClustersFrom(k + 1, labels, ids, clusters)

GroupClusters(labels, ids) == GroupClustersFrom(1, labels, ids, <<>>)

\* GeographicAnalyzer(eps_km, min_samples).identify_clusters(locs)
identify_clusters(locs, eps_km, min_samples) ==
    IF locs = <<>> THEN [raised |-> "none", labels |-> <<>>, clusters |-> <<>>]
    ELSE LET db == DBSCAN(Len(locs), NeighborsDeg(locs, eps_km), min_samples)
         IN  [raised |-> db.raised, labels |-> db.labels,
              clusters |-> GroupAll(db.labels)]

\* the locations get_clusters keeps: confirmed >= min_cases, as indices
Filtered(locs, min_cases) ==
    Ascending({i \in 1..Len(locs) : locs[i].cases >= min_cases}, Len(locs))

\* v2.get_clusters(min_cases, radius_km) over the source's locations
get_clusters(locs, min_cases, radius_km) ==
    LET ids == Filtered(locs, min_cases)
        kept == [k \in 1..Len(ids) |-> locs[ids[k]]]
    IN  IF ids = <<>> THEN [raised |-> "HTTP404", labels |-> <<>>, clusters |-> <<>>]
        ELSE LET db == dbscan_cluster(kept, radius_km, min_cases)
             IN  [raised |-> db.raised, labels |-> db.labels,
                  clusters |-> GroupClusters(db.labels, ids)]

(***************************************************************************)
(* app/utils/analysis.py.  A timeline is a dict from timestamp strings to  *)
(* case counts.  A key string is carried as the record of what it spells:  *)
(*   fmt "sec"    "YYYY-MM-DDT00:00:00Z"         midnight of day `day`       *)
(*   fmt "micro"  "YYYY-MM-DDT00:00:00.500000Z"  half a second after it      *)
(*   fmt "date"   "YYYY-MM-DD"                   the bare date               *)
(*   fmt "bad"    "unknown"                      no timestamp at all         *)
(* The first two are what datetime.isoformat() + 'Z' writes, without and   *)
(* with microseconds.  A case count is [type, v]: the int v, or the str    *)
(* spelling v.                                                             *)
(***************************************************************************)
MaxKeys == 3                    \* most keys of a timeline explored

DaySet == {0, 1, 15}            \* the days timestamps fall on
WindowChoices == {0, 1, 14}     \* days arguments explored

BadKey == [day |-> 0, fmt |-> "bad"]
Keys == [day : DaySet, fmt : {"sec", "micro", "date"}] \cup {BadKey}
CaseCounts == {[type |-> "int", v |-> 100], [type |-> "int", v |-> 200],
               [type |-> "str", v |-> 100]}

Timelines ==
    UNION {[ks -> CaseCounts] : ks \in {k \in SUBSET Keys : Cardinality(k) <= MaxKeys}}

\* rank of the characters that follow the date in a key string: end of
\* string < '.' < 'Z'
FmtRank(fmt) == CASE fmt = "date" -> 0 [] fmt = "micro" -> 1 [] OTHER -> 2

\* k1 < k2 as Python compares the two strings: "unknown" is above every
\* digit string; equal-width dates compare as days; then the tail decides
StrLess(k1, k2) ==
    IF k1.fmt = "bad" THEN FALSE
    ELSE IF k2.fmt = "bad" THEN TRUE
    ELSE IF k1.day # k2.day THEN k1.day < k2.day
    ELSE FmtRank(k1.fmt) < FmtRank(k2.fmt)

\* sorted(timeline.keys())
RECURSIVE sorted(_)
sorted(ks) ==
    IF ks = {} THEN <<>>
    ELSE LET m == CHOOSE x \in ks : \A y \in ks \ {x} : StrLess(x, y)
         IN  <<m>> \o sorted(ks \ {m})

\* datetime.fromisoformat(key.rstrip('Z')): the instant, or a ValueError
fromisoformat(key) ==
    IF key.fmt = "bad" THEN [raised |-> "ValueError", day |-> 0, micro |-> 0]
    ELSE [raised |-> "none", day |-> key.day,
          micro |-> IF key.fmt = "micro" THEN 500000 ELSE 0]

\* datetime.isoformat() + 'Z': microseconds are written only when not zero
isoformatZ(dt) == [day |-> dt.day, fmt |-> IF dt.micro = 0 THEN "sec" ELSE "micro"]

\* dt - timedelta(days=days)
MinusDays(dt, n) == [dt EXCEPT !.day = dt.day - n]

NoVector == [start_date |-> BadKey, end_date |-> BadKey, start_cases |-> 0,
             end_cases |-> 0, total_increase |-> 0,
             daily_num |-> 0, daily_den |-> 1]

Returned(v) == [raised |-> "none", result |-> "vector", vector |-> v]
ReturnedNone == [raised |-> "none", result |-> "None", vector |-> NoVector]
Raised(e) == [raised |-> e, result |-> "raised", vector |-> NoVector]

\* calculate_spread_vector(location, days); has says whether the location
\* carries timelines.confirmed.timeline at all.  daily_increase is the
\* quotient daily_num / daily_den.
calculate_spread_vector(has, tl, n) ==
    IF ~has THEN ReturnedNone                      \* AttributeError, caught
    ELSE LET dates == sorted(DOMAIN tl)
         IN  IF dates = <<>> THEN ReturnedNone
             ELSE LET end_date == dates[Len(dates)]
                      parsed == fromisoformat(end_date)
                      start_date == isoformatZ(MinusDays(parsed, n))
                  IN  IF parsed.raised # "none" THEN ReturnedNone   \* ValueError, caught
                      ELSE IF start_date \notin DOMAIN tl THEN ReturnedNone
                      ELSE LET start_cases == tl[start_date]
                               end_cases == tl[end_date]
                               total_increase == end_cases.v - start_cases.v
                           IN  IF start_cases.type # "int" \/ end_cases.type # "int"
                               THEN Raised("TypeError")
                               ELSE IF n = 0 THEN Raised("ZeroDivisionError")
                               ELSE Returned([start_date |-> start_date,
                                              end_date |-> end_date,
                                              start_cases |-> start_cases.v,
                                              end_cases |-> end_cases.v,
                                              total_increase |-> total_increase,
                                              daily_num |-> total_increase,
                                              daily_den |-> n])

(***************************************************************************)
(* The distance matrix of dbscan_cluster on arbitrary points of the globe: *)
(* poles, the equator, the antimeridian and two mid latitudes.             *)
(***************************************************************************)
MaxPoints == 2                  \* longest point list a matrix is built for

GridLats == {0 - 900, 0 - 405, 0, 400, 900}
GridLons == {0 - 1800, 0 - 740, 0, 1395, 1800}
GridPool == [latitude : GridLats, longitude : GridLons, cases : {10}]
PointLists == SeqsUpTo(GridPool, MaxPoints)

\* coords and distances of dbscan_cluster:
\*   distances[i,j] = haversine_distance(coords[i,0], coords[i,1],
\*                                       coords[j,0], coords[j,1])
DistanceMatrix(locs) ==
    [i \in 1..Len(locs), j \in 1..Len(locs) |->
        haversine_distance(locs[i].latitude, locs[i].longitude,
                           locs[j].latitude, locs[j].longitude)]

(***************************************************************************)
(* Heatmaps: GeographicAnalyzer.generate_risk_heatmap,                     *)
(* visualization.create_heatmap and the /heatmap route.  An optional       *)
(* argument is None (the empty tuple) or a one-element tuple of its value; *)
(* a supplied coordinate is in tenths of a degree like every other one.    *)
(***************************************************************************)
MaxHeatLocs == 3                \* longest location list given to a heatmap

None == <<>>
Some(v) == <<v>>

CenterLatChoices == {None, Some(0), Some(100)}
CenterLonChoices == {None, Some(0), Some(0 - 50)}
HeatLists == SeqsUpTo(LocationPool, MaxHeatLocs)

\* sum(xs) of a list of numbers
RECURSIVE Sum(_)
Sum(xs) == IF xs = <<>> THEN 0 ELSE Head(xs) + Sum(Tail(xs))

\* the mean of the floats of a non-empty list: sum(...) / len(...), np.mean
Mean(xs) == Div(AsFloat(Sum(xs)), Len(xs))

Latitudes(locs) == [k \in 1..Len(locs) |-> locs[k].latitude]
Longitudes(locs) == [k \in 1..Len(locs) |-> locs[k].longitude]

\* the [lat, lon, weight] rows of a location list
HeatRow(loc) == <<AsFloat(loc.latitude), AsFloat(loc.longitude), loc.cases>>

NoHeatmap == [raised |-> "none", center |-> None, heat_data |-> <<>>]
Heatmap(center, heat_data) ==
    [raised |-> "none", center |-> center, heat_data |-> heat_data]
HeatmapRaised(e) == [raised |-> e, center |-> None, heat_data |-> <<>>]

\* GeographicAnalyzer.generate_risk_heatmap(locations, center): center is
\* None or the pair of both coordinates
generate_risk_heatmap(locs, center) ==
    IF locs = <<>> THEN HeatmapRaised("ValueError")
    ELSE LET used == IF center = None
                     THEN <<Mean(Latitudes(locs)), Mean(Longitudes(locs))>>
                     ELSE <<AsFloat(center[1][1]), AsFloat(center[1][2])>>
         IN  Heatmap(used, [k \in 1..Len(locs) |-> HeatRow(locs[k])])

\* the heat_data of create_heatmap: a row for each location that has a
\* confirmed count (hasattr(loc, 'latest') and hasattr(loc.latest, 'confirmed'))
HeatData(locs) ==
    LET counted == SelectSeq(locs, LAMBDA loc : "cases" \in DOMAIN loc)
    IN  [k \in 1..Len(counted) |-> HeatRow(counted[k])]

\* visualization.create_heatmap(locations, center_lat, center_lon): both
\* halves of the center are computed as soon as either is None
create_heatmap(locs, center_lat, center_lon) ==
    IF center_lat = None \/ center_lon = None
    THEN IF locs = <<>> THEN HeatmapRaised("ZeroDivisionError")
         ELSE Heatmap(<<Mean(Latitudes(locs)), Mean(Longitudes(locs))>>,
                      HeatData(locs))
    ELSE Heatmap(<<AsFloat(center_lat[1]), AsFloat(center_lon[1])>>,
                 HeatData(locs))

\* GET /v2/heatmap?center_lat=..&center_lon=..
get_heatmap(locs, center_lat, center_lon) ==
    IF locs = <<>> THEN HeatmapRaised("HTTP404")
    ELSE create_heatmap(locs, center_lat, center_lon)

(***************************************************************************)
(* The state: the data a request finds, and what the operation called on   *)
(* it returned.                                                            *)
(***************************************************************************)
VARIABLES
    pc,             \* "idle", or the operation that has run
    locations,      \* the location list the operation is given
    eps_km,         \* its eps_km / radius_km argument
    min_samples,    \* its min_samples / min_cases argument
    labels,         \* the labels DBSCAN returned
    clusters,       \* the returned mapping: label -> list of location indices
    raised,         \* "none", or the exception the call ended with
    has_timeline,   \* whether the location has a confirmed timeline
    timeline,       \* that timeline
    days,           \* the days argument
    spread,         \* what calculate_spread_vector came to
    center_lat,     \* the center latitude argument of a heatmap call, or None
    center_lon,     \* the center longitude argument of a heatmap call, or None
    heatmap,        \* what the heatmap call came to
    distances       \* the distance matrix dbscan_cluster built

vars == <<pc, locations, eps_km, min_samples, labels, clusters, raised,
          has_timeline, timeline, days, spread,
          center_lat, center_lon, heatmap, distances>>

clusterVars == <<locations, eps_km, min_samples, labels, clusters, raised>>
spreadVars == <<has_timeline, timeline, days, spread>>
heatVars == <<center_lat, center_lon, heatmap>>
NoDistances == <<>>

NoSpread == [raised |-> "none", result |-> "none", vector |-> NoVector]

Init ==
    /\ pc = "idle"
    /\ locations \in LocationLists
    /\ eps_km = 0 /\ min_samples = 0
    /\ labels = <<>> /\ clusters = <<>> /\ raised = "none"
    /\ has_timeline = FALSE /\ timeline = <<>> /\ days = 0 /\ spread = NoSpread
    /\ center_lat = None /\ center_lon = None /\ heatmap = NoHeatmap
    /\ distances = NoDistances

\* analyzer = GeographicAnalyzer(eps, ms); analyzer.identify_clusters(locations)
IdentifyClusters ==
    /\ pc = "idle"
    /\ \E eps \in EpsChoices, ms \in MinSamplesChoices :
          \E r \in {identify_clusters(locations, eps, ms)} :
              /\ eps_km' = eps /\ min_samples' = ms
              /\ labels' = r.labels /\ clusters' = r.clusters /\ raised' = r.raised
    /\ pc' = "identify_clusters"
    /\ UNCHANGED <<locations, has_timeline, timeline, days, spread>>
    /\ UNCHANGED heatVars
    /\ UNCHANGED distances

\* geo.dbscan_cluster(locations, eps_km=eps, min_samples=ms)
DbscanCluster ==
    /\ pc = "idle"
    /\ \E eps \in EpsChoices, ms \in MinSamplesChoices :
          \E r \in {dbscan_cluster(locations, eps, ms)} :
              /\ eps_km' = eps /\ min_samples' = ms
              /\ labels' = r.labels /\ clusters' = <<>> /\ raised' = r.raised
    /\ pc' = "dbscan_cluster"
    /\ UNCHANGED <<locations, has_timeline, timeline, days, spread>>
    /\ UNCHANGED heatVars
    /\ UNCHANGED distances

\* GET /v2/clusters?min_cases=mc&radius_km=radius
GetClusters ==
    /\ pc = "idle"
    /\ \E radius \in EpsChoices, mc \in MinCasesChoices :
          \E r \in {get_clusters(locations, mc, radius)} :
              /\ eps_km' = radius /\ min_samples' = mc
              /\ labels' = r.labels /\ clusters' = r.clusters /\ raised' = r.raised
    /\ pc' = "get_clusters"
    /\ UNCHANGED <<locations, has_timeline, timeline, days, spread>>
    /\ UNCHANGED heatVars
    /\ UNCHANGED distances

Next == IdentifyClusters \/ DbscanCluster \/ GetClusters

Spec == Init /\ [][Next]_vars

InitSpread ==
    /\ pc = "idle"
    /\ \/ has_timeline = FALSE /\ timeline = <<>>
       \/ has_timeline = TRUE /\ timeline \in Timelines
    /\ days = 0 /\ spread = NoSpread
    /\ locations = <<>> /\ eps_km = 0 /\ min_samples = 0
    /\ labels = <<>> /\ clusters = <<>> /\ raised = "none"
    /\ center_lat = None /\ center_lon = None /\ heatmap = NoHeatmap
    /\ distances = NoDistances

\* analysis.calculate_spread_vector(location, days=n)
CalculateSpreadVector ==
    /\ pc = "idle"
    /\ \E n \in WindowChoices :
          /\ days' = n
          /\ spread' = calculate_spread_vector(has_timeline, timeline, n)
    /\ pc' = "calculate_spread_vector"
    /\ UNCHANGED <<has_timeline, timeline>>
    /\ UNCHANGED clusterVars
    /\ UNCHANGED heatVars
    /\ UNCHANGED distances

NextSpread == CalculateSpreadVector

SpecSpread == InitSpread /\ [][NextSpread]_vars

InitHeatmap ==
    /\ pc = "idle"
    /\ locations \in HeatLists
    /\ center_lat = None /\ center_lon = None /\ heatmap = NoHeatmap
    /\ distances = NoDistances
    /\ eps_km = 0 /\ min_samples = 0
    /\ labels = <<>> /\ clusters = <<>> /\ raised = "none"
    /\ has_timeline = FALSE /\ timeline = <<>> /\ days = 0 /\ spread = NoSpread

\* analyzer.generate_risk_heatmap(locations, center=(lat, lon)) or with no
\* center at all
GenerateRiskHeatmap ==
    /\ pc = "idle"
    /\ \E lat \in CenterLatChoices, lon \in CenterLonChoices :
          /\ (lat = None) = (lon = None)
          /\ center_lat' = lat /\ center_lon' = lon
          /\ heatmap' = generate_risk_heatmap(locations,
                            IF lat = None THEN None ELSE Some(<<lat[1], lon[1]>>))
    /\ pc' = "generate_risk_heatmap"
    /\ UNCHANGED <<locations, eps_km, min_samples, labels, clusters, raised>>
    /\ UNCHANGED spreadVars
    /\ UNCHANGED distances

\* visualization.create_heatmap(locations, center_lat, center_lon)
CreateHeatmap ==
    /\ pc = "idle"
    /\ \E lat \in CenterLatChoices, lon \in CenterLonChoices :
          /\ center_lat' = lat /\ center_lon' = lon
          /\ heatmap' = create_heatmap(locations, lat, lon)
    /\ pc' = "create_heatmap"
    /\ UNCHANGED <<locations, eps_km, min_samples, labels, clusters, raised>>
    /\ UNCHANGED spreadVars
    /\ UNCHANGED distances

\* GET /v2/heatmap
GetHeatmap ==
    /\ pc = "idle"
    /\ \E lat \in CenterLatChoices, lon \in CenterLonChoices :
          /\ center_lat' = lat /\ center_lon' = lon
          /\ heatmap' = get_heatmap(locations, lat, lon)
    /\ pc' = "get_heatmap"
    /\ UNCHANGED <<locations, eps_km, min_samples, labels, clusters, raised>>
    /\ UNCHANGED spreadVars
    /\ UNCHANGED distances

NextHeatmap == GenerateRiskHeatmap \/ CreateHeatmap \/ GetHeatmap

SpecHeatmap == InitHeatmap /\ [][NextHeatmap]_vars

InitDistance ==
    /\ pc = "idle"
    /\ locations \in PointLists
    /\ distances = NoDistances
    /\ center_lat = None /\ center_lon = None /\ heatmap = NoHeatmap
    /\ eps_km = 0 /\ min_samples = 0
    /\ labels = <<>> /\ clusters = <<>> /\ raised = "none"
    /\ has_timeline = FALSE /\ timeline = <<>> /\ days = 0 /\ spread = NoSpread

\* the matrix-building loop of dbscan_cluster
BuildDistances ==
    /\ pc = "idle"
    /\ distances' = DistanceMatrix(locations)
    /\ pc' = "distances"
    /\ UNCHANGED <<locations, eps_km, min_samples, labels, clusters, raised>>
    /\ UNCHANGED spreadVars
    /\ UNCHANGED heatVars

NextDistance == BuildDistances

SpecDistance == InitDistance /\ [][NextDistance]_vars

InitSites ==
    /\ pc = "idle"
    /\ locations \in SiteLists
    /\ eps_km = 0 /\ min_samples = 0
    /\ labels = <<>> /\ clusters = <<>> /\ raised = "none"
    /\ has_timeline = FALSE /\ timeline = <<>> /\ days = 0 /\ spread = NoSpread
    /\ center_lat = None /\ center_lon = None /\ heatmap = NoHeatmap
    /\ distances = NoDistances

\* geo.dbscan_cluster(locations, eps_km=eps, min_samples=ms) on these places
DbscanClusterSites ==
    /\ pc = "idle"
    /\ \E eps \in EpsChoices, ms \in SiteMinSamplesChoices :
          \E r \in {dbscan_cluster(locations, eps, ms)} :
              /\ eps_km' = eps /\ min_samples' = ms
              /\ labels' = r.labels /\ clusters' = <<>> /\ raised' = r.raised
    /\ pc' = "dbscan_cluster"
    /\ UNCHANGED <<locations, has_timeline, timeline, days, spread>>
    /\ UNCHANGED heatVars
    /\ UNCHANGED distances

NextSites == DbscanClusterSites \/ GetClusters

SpecSites == InitSites /\ [][NextSites]_vars

(***************************************************************************)
(* Properties of the clustering operations (specification Spec).           *)
(***************************************************************************)
\* the locations handed to DBSCAN, as indices of `locations`: labels[k] is
\* the label of location ClusteredIds[k]
ClusteredIds ==
    IF pc = "get_clusters" THEN Filtered(locations, min_samples)
    ELSE [k \in 1..Len(locations) |-> k]

\* the locations of the returned mapping, key by key: a list with one entry
\* for each place of each list
RECURSIVE Flatten(_, _)
Flatten(dict, keys) ==
    IF keys = {} THEN <<>>
    ELSE LET l == CHOOSE x \in keys : TRUE
         IN  dict[l] \o Flatten(dict, keys \ {l})

\* how often location i occurs in the list `members`
Occurrences(members, i) == Cardinality({p \in DOMAIN members : members[p] = i})

Coord(i) == <<locations[i].latitude, locations[i].longitude>>

\* locations i and j are within eps_km kilometres of each other
WithinKm(i, j) == DistancesKm[Coord(i), Coord(j)] <= eps_km * Scale

\* locations i and j are returned under one key
SameKey(i, j) ==
    \E l \in DOMAIN clusters :
        /\ \E p \in DOMAIN clusters[l] : clusters[l][p] = i
        /\ \E p \in DOMAIN clusters[l] : clusters[l][p] = j

\* C1: the result partitions the clustered locations: the mapping holds
\* only locations that were clustered, and each clustered location occurs
\* in it exactly once, or not at all and then its label is noise.
C1_Partition ==
    (pc \in {"identify_clusters", "get_clusters"} /\ raised = "none") =>
        LET ids == ClusteredIds
            members == Flatten(clusters, DOMAIN clusters)
        IN  /\ Len(labels) = Len(ids)
            /\ \A p \in DOMAIN members : \E k \in DOMAIN ids : members[p] = ids[k]
            /\ \A k \in DOMAIN labels :
                  LET n == Occurrences(members, ids[k])
                  IN  n = 1 \/ (n = 0 /\ labels[k] = Noise)

\* a route result with a cluster and a location dropped as noise
C1_Witness ==
    /\ pc = "get_clusters" /\ raised = "none"
    /\ clusters # <<>>
    /\ \E k \in DOMAIN labels : labels[k] = Noise

\* C2: every key of the returned mapping is a cluster label >= 0, for
\* identify_clusters and for the get_clusters route.
C2_OnlyClusterKeys ==
    pc \in {"identify_clusters", "get_clusters"} =>
        \A l \in DOMAIN clusters : l >= 0

\* the locations that have no other location within eps_km kilometres
Isolated ==
    {i \in 1..Len(locations) : \A j \in (1..Len(locations)) \ {i} : ~WithinKm(i, j)}

\* C3: two isolated locations are never returned under the same key of the
\* identify_clusters mapping.
C3_IsolatedApart ==
    pc = "identify_clusters" =>
        LET isolated == Isolated
        IN  \A i, j \in isolated : i # j => ~SameKey(i, j)

\* the pairs <<a, b>> of clustered locations (positions of labels) that are
\* within eps_km kilometres of each other
WithinLabelled ==
    LET ids == ClusteredIds
    IN  {ab \in (DOMAIN labels) \X (DOMAIN labels) : WithinKm(ids[ab[1]], ids[ab[2]])}

\* of them, the locations with at least min_samples locations within eps_km,
\* themselves included
Dense(within) ==
    {a \in DOMAIN labels :
        Cardinality({b \in DOMAIN labels : <<a, b>> \in within}) >= min_samples}

\* C4: in exact mode (dbscan_cluster, alone or under the route) two
\* locations within eps_km of each other that both satisfy the min_samples
\* density get the same label, and that label is >= 0.
C4_ThresholdConsistent ==
    (pc \in {"dbscan_cluster", "get_clusters"} /\ raised = "none") =>
        LET within == WithinLabelled
            dense == Dense(within)
        IN  \A a, b \in dense :
                <<a, b>> \in within => labels[a] = labels[b] /\ labels[a] >= 0

\* two dense neighbours at different places, in a cluster that also holds a
\* location farther than eps_km from one of them
C4_Witness ==
    /\ pc = "dbscan_cluster" /\ raised = "none"
    /\ LET within == WithinLabelled
           dense == Dense(within)
       IN  \E a, b \in dense, c \in DOMAIN labels :
              /\ Coord(a) # Coord(b) /\ <<a, b>> \in within
              /\ labels[c] = labels[a] /\ <<a, c>> \notin within

Coincident(i, j) == i # j /\ Coord(i) = Coord(j)

\* C5 as stated: for min_samples >= 2 two coincident locations are returned
\* in the same cluster, with a label >= 0.
C5_CoincidentClustered ==
    (pc = "identify_clusters" /\ min_samples >= 2) =>
        \A i, j \in 1..Len(locations) :
            Coincident(i, j) =>
                SameKey(i, j) /\ labels[i] = labels[j] /\ labels[i] >= 0

\* C5 amended: two coincident locations always get the same label and are
\* returned under the same key; the label is >= 0 when min_samples <= 2.
C5_CoincidentSameLabel ==
    pc = "identify_clusters" =>
        \A i, j \in 1..Len(locations) :
            Coincident(i, j) =>
                /\ SameKey(i, j) /\ labels[i] = labels[j]
                /\ (min_samples <= 2 => labels[i] >= 0)

\* min_samples = 2, a coincident pair in a cluster, another location noise
C5_Witness ==
    /\ pc = "identify_clusters" /\ min_samples = 2
    /\ \E i, j, k \in 1..Len(locations) :
          Coincident(i, j) /\ labels[i] >= 0 /\ labels[k] = Noise

\* C6: identify_clusters on exactly one location returns a mapping with
\* exactly one entry, whose list holds that location alone.
C6_SingleLocation ==
    (pc = "identify_clusters" /\ Len(locations) = 1) =>
        /\ raised = "none"
        /\ Cardinality(DOMAIN clusters) = 1
        /\ \A l \in DOMAIN clusters : clusters[l] = <<1>>

\* one location clustered with min_samples = 2
C6_Witness ==
    /\ pc = "identify_clusters" /\ Len(locations) = 1 /\ min_samples = 2
    /\ Cardinality(DOMAIN clusters) = 1

\* C7: clustering an empty location list returns an empty mapping and does
\* not fail, for identify_clusters and for the exact-mode path.
C7_EmptyIsEmpty ==
    (locations = <<>> /\ pc \in {"identify_clusters", "dbscan_cluster", "get_clusters"}) =>
        raised = "none" /\ clusters = <<>>

(***************************************************************************)
(* Properties of calculate_spread_vector (specification SpecSpread).       *)
(***************************************************************************)
\* the instant a key spells: <<day, microseconds after its midnight>>
Instant(k) == <<k.day, IF k.fmt = "micro" THEN 500000 ELSE 0>>

Later(t1, t2) == t1[1] > t2[1] \/ (t1[1] = t2[1] /\ t1[2] > t2[2])

\* the series is a dict of full UTC timestamps to integer counts
WellFormedSeries ==
    /\ has_timeline
    /\ \A k \in DOMAIN timeline :
          k.fmt \in {"sec", "micro"} /\ timeline[k].type = "int"

\* the latest timestamp of a non-empty series
LatestInstant ==
    LET ts == {Instant(k) : k \in DOMAIN timeline}
    IN  CHOOSE t \in ts : \A u \in ts \ {t} : Later(t, u)

\* the instant `days` days before the latest timestamp
StartTarget == <<LatestInstant[1] - days, LatestInstant[2]>>

\* C8: on a well-formed series a vector is returned exactly when the series
\* has a key for the instant end - days, end being its latest timestamp,
\* and the vector's start is that instant, never another key.
C8_ExactMatch ==
    (pc = "calculate_spread_vector" /\ WellFormedSeries /\ days >= 1) =>
        /\ spread.result = "vector" <=>
              (timeline # <<>> /\ \E k \in DOMAIN timeline : Instant(k) = StartTarget)
        /\ spread.result = "vector" => Instant(spread.vector.start_date) = StartTarget

\* C9: a returned vector ends at the latest timestamp of the series, starts
\* exactly `days` days before it, carries the series' counts at those two
\* keys, total_increase = end_cases - start_cases and daily_increase =
\* total_increase / days; {day 1: 100, day 15: 200} over 14 days gives
\* total_increase 100 and daily_increase 7.14.
C9_VectorFields ==
    (pc = "calculate_spread_vector" /\ WellFormedSeries /\ spread.result = "vector") =>
        LET v == spread.vector
        IN  /\ Instant(v.end_date) = LatestInstant
            /\ Instant(v.start_date) = StartTarget
            /\ v.start_date \in DOMAIN timeline /\ v.end_date \in DOMAIN timeline
            /\ v.start_cases = timeline[v.start_date].v
            /\ v.end_cases = timeline[v.end_date].v
            /\ v.total_increase = v.end_cases - v.start_cases
            /\ v.daily_num = v.total_increase /\ v.daily_den = days
            /\ (/\ days = 14
                /\ timeline = [k \in {[day |-> 1, fmt |-> "sec"], [day |-> 15, fmt |-> "sec"]}
                                 |-> [type |-> "int", v |-> IF k.day = 1 THEN 100 ELSE 200]])
                  => v.total_increase = 100 /\ (100 * v.daily_num) \div v.daily_den = 714

\* C10: calculate_spread_vector never raises: it returns a vector or None.
C10_NeverFails ==
    pc = "calculate_spread_vector" =>
        spread.raised = "none" /\ spread.result \in {"vector", "None"}


(***************************************************************************)
(* Properties of the heatmap builders (specification SpecHeatmap).         *)
(***************************************************************************)
HeatmapBuilt == pc \in {"generate_risk_heatmap", "create_heatmap", "get_heatmap"}

\* the caller supplied a center: both of its coordinates
CenterSupplied == center_lat # None /\ center_lon # None

\* C11: a heatmap builder fails exactly when the location list is empty and
\* no center was supplied; with locations, or with a supplied center, it
\* returns a heatmap.
C11_FailsExactly ==
    HeatmapBuilt =>
        ((heatmap.raised # "none") <=> (locations = <<>> /\ ~CenterSupplied))

\* C12: every supplied center coordinate is the coordinate of the map's
\* center, unchanged; with no coordinate supplied the center is the mean
\* latitude and the mean longitude of the locations.
C12_CenterUsed ==
    (HeatmapBuilt /\ heatmap.raised = "none") =>
        /\ center_lat # None => heatmap.center[1] = AsFloat(center_lat[1])
        /\ center_lon # None => heatmap.center[2] = AsFloat(center_lon[1])
        /\ (center_lat = None /\ center_lon = None) =>
               heatmap.center = <<Mean(Latitudes(locations)),
                                  Mean(Longitudes(locations))>>


(***************************************************************************)
(* Properties of the distance (specification SpecDistance).                *)
(***************************************************************************)
\* C13: the matrix dbscan_cluster builds is symmetric with zeros on its
\* diagonal: distance(a, b) = distance(b, a) and distance(p, p) = 0.
C13_SymmetricZeroDiagonal ==
    pc = "distances" =>
        /\ \A i \in 1..Len(locations) : distances[i, i] = 0
        /\ \A i, j \in 1..Len(locations) : distances[i, j] = distances[j, i]

\* two points of different latitudes and longitudes, a positive distance apart
C13_Witness ==
    /\ pc = "distances"
    /\ Len(locations) = 2
    /\ locations[1].latitude # locations[2].latitude
    /\ locations[1].longitude # locations[2].longitude
    /\ distances[1, 2] > 0
    /\ distances[1, 2] = distances[2, 1]
    /\ distances[1, 1] = 0


(***************************************************************************)
(* Properties of dbscan_cluster's parameters (specifications SpecSites and *)
(* Spec).                                                                  *)
(***************************************************************************)
\* the labels >= 0 that DBSCAN gave out
ClusterLabels == {labels[k] : k \in DOMAIN labels} \ {Noise}

\* C14: every cluster dbscan_cluster returns (label >= 0) holds at least
\* min_samples locations.
C14_ClusterSize ==
    (pc \in {"dbscan_cluster", "get_clusters"} /\ raised = "none") =>
        \A l \in ClusterLabels :
            Cardinality({k \in DOMAIN labels : labels[k] = l}) >= min_samples

\* C15: any two locations that dbscan_cluster gives the same label >= 0 are
\* at most eps_km kilometres apart.
C15_WithinEps ==
    (pc \in {"dbscan_cluster", "get_clusters"} /\ raised = "none") =>
        LET ids == ClusteredIds
        IN  \A k1, k2 \in DOMAIN labels :
                (labels[k1] = labels[k2] /\ labels[k1] >= 0) =>
                    WithinKm(ids[k1], ids[k2])

=============================================================================
